---- MODULE Spec2Model ----
(***************************************************************************)
(* Redis-backed priority task queue (src/src/queue): TaskQueue, TaskWorker *)
(* and TaskScheduler.  The shared store is the only shared state; every    *)
(* store call (setex, rpush, blpop, sadd, srem, lrem, zadd, publish ...)   *)
(* is one atomic step, and the local code between two store calls belongs  *)
(* to the step of the store call that follows it.                          *)
(***************************************************************************)
EXTENDS Integers, Sequences, FiniteSets, TLC

\* ------------------------------------------------------------- bounds
NumTasks == 2          \* task ids a client may create in the concurrent specifications
SeqTasks == 3          \* task ids a client may create in the sequential specification
MaxRetriesBound == 1   \* largest max_retries a submitted task carries
MaxTime == 1           \* largest value of the clock
MaxPushes == 3         \* pushes of one task id onto the priority lists that are followed

\* ------------------------------------------------------------- program constants
LOW == 0
NORMAL == 5
HIGH == 10
URGENT == 15

TaskPriority == {LOW, NORMAL, HIGH, URGENT}
TaskStatus == {"pending", "running", "completed", "failed", "cancelled", "retry"}
TaskType == {"agent_query", "document_index", "batch_query", "scheduled", "webhook"}

\* TaskWorker.__init__: the task types that have a handler
HandlerTypes == {"agent_query", "document_index", "batch_query"}

\* a variant of the default order that starts with the lowest priority
DefaultPrioritiesAscending == <<LOW, NORMAL, HIGH, URGENT>>

\* get_next_task: the default order of the priority lists, highest first
DefaultPriorities == <<URGENT, HIGH, NORMAL, LOW>>

MaxIds == IF NumTasks > SeqTasks THEN NumTasks ELSE SeqTasks
TaskIds == 1 .. MaxIds

Workers == {"w1", "w2"}
Clients == {"c1"}
Cancellers == {"k1"}
Schedulers == {"s1", "s2"}
Monitors == {"m1"}
Procs == Workers \cup Clients \cup Cancellers \cup Schedulers \cup Monitors

None == "None"
HandlerValues == {"r1", "r2"}

\* a Task (task_models.Task); task_id 0 stands for "no task" (Python None)
\* the payload is kept as "query" (a dict with the key query) or "empty" ({})
NewTask(id, type, prio, mr) ==
    [task_id |-> id, task_type |-> type, payload |-> "query", priority |-> prio,
     status |-> "pending", max_retries |-> mr, retry_count |-> 0, worker_id |-> None,
     result |-> None, error |-> None]

NoTask == NewTask(0, "agent_query", NORMAL, 0)

\* a TaskResult (task_models.TaskResult); task_id 0 stands for "no result"
NewResult(id, st, res, err, wid) ==
    [task_id |-> id, status |-> st, result |-> res, error |-> err, worker_id |-> wid]

NoResult == NewResult(0, "pending", None, None, None)

VARIABLES
    queue,          \* <ns>:queue:<priority>  : list of task ids
    task,           \* <ns>:task:<id>         : the serialized Task
    result,         \* <ns>:result:<id>       : the serialized TaskResult
    status_set,     \* <ns>:status:<status>   : set of task ids
    scheduled,      \* <ns>:scheduled         : task id -> score (-1: not a member)
    workers,        \* <ns>:workers           : set of worker ids
    heartbeat,      \* <ns>:worker:<id>:heartbeat keys that are live
    events,         \* <ns>:events            : the envelopes published so far
    now,            \* the clock
    nextId,         \* the next fresh task id (uuid4)
    pc,             \* each process's position
    loc,            \* each process's local variables
    running,        \* TaskWorker.running
    tasks_processed,\* TaskWorker.tasks_processed
    tasks_failed,   \* TaskWorker.tasks_failed
    hist,           \* history: per task id, the pushes, pops and handler runs so far
    enabled,        \* per process: is_available() of its TaskQueue object
    reachable,      \* the backing store answers
    raised,         \* per process: the exception its last queue call let through
    failed          \* the processes one of whose store calls has failed

store == <<queue, task, result, status_set, scheduled, workers, heartbeat, events>>
wvars == <<running, tasks_processed, tasks_failed>>
qvars == <<enabled, reachable, raised, failed>>
vars == <<queue, task, result, status_set, scheduled, workers, heartbeat, events,
          now, nextId, pc, loc, running, tasks_processed, tasks_failed, hist,
          enabled, reachable, raised, failed>>

\* ------------------------------------------------------------- locals
\* a member of an Enum class, kept apart from its value
Member(cls, v) == [cls |-> cls, value |-> v]

\* Task(...) as an object: enum members, datetime objects <<second, microsecond>>, and
\* <<>> for None, <<x>> for a present Optional
TaskObject(type, payload, prio, st, rc, created, started, completed, wid) ==
    [task_id |-> 1, task_type |-> Member("TaskType", type), payload |-> payload,
     priority |-> Member("TaskPriority", prio), status |-> Member("TaskStatus", st),
     max_retries |-> 3, retry_count |-> rc, created_at |-> created,
     started_at |-> started, completed_at |-> completed, worker_id |-> wid]

NoTaskObject == TaskObject("agent_query", "empty", NORMAL, "pending", 0, <<0, 0>>, <<>>, <<>>, <<>>)

\* the dictionary to_dict returns for a default Task
NoTaskDict ==
    [task_id |-> 1, task_type |-> "agent_query", payload |-> "empty", priority |-> NORMAL,
     status |-> "pending", max_retries |-> 3, retry_count |-> 0,
     created_at |-> "1970-01-01T00:00:00", started_at |-> <<>>, completed_at |-> <<>>,
     worker_id |-> <<>>]

\* QueueStats(): every count 0, success_rate 0.0; a rate is kept as the pair
\* <<numerator, denominator>> of the division that produced it
NoStats ==
    [pending_tasks |-> 0, running_tasks |-> 0, completed_tasks |-> 0,
     failed_tasks |-> 0, total_tasks |-> 0, active_workers |-> 0,
     success_rate |-> <<0, 1>>]

NoLoc ==
    [cur |-> 0,            \* the task id the process works on
     ltask |-> NoTask,     \* the Task object the process holds
     utask |-> NoTask,     \* the Task read by the queue method in progress
     ustatus |-> None,     \* update_task_status: status
     uwid |-> None,        \* update_task_status: worker_id
     uerr |-> None,        \* update_task_status: error
     ret |-> None,         \* where the queue method in progress returns to
     idx |-> 1,            \* get_next_task: position in the priorities list
     ok |-> FALSE,         \* the handler returned (TRUE) or raised (FALSE)
     val |-> None,         \* the handler's return value or error text
     due |-> <<>>,         \* check_and_submit_due_tasks: due_tasks still to do
     score |-> 0,          \* schedule_task: execute_at.timestamp()
     before |-> 0,         \* stats().pending_tasks read before the call in progress
     seen |-> {},          \* cleanup_stale_workers: the worker ids still to check
     members |-> {},       \* cleanup_stale_workers: the worker ids smembers returned
     at |-> -1,            \* check_and_submit_due_tasks: now, read when the call began
     dueset |-> {},        \* check_and_submit_due_tasks: the ids zrangebyscore returned
     submitted |-> 0,      \* check_and_submit_due_tasks: submitted
     op |-> None,          \* the method called on an unavailable queue
     pub |-> 0,            \* events published by the queue method in progress
     stats |-> NoStats,    \* get_queue_stats: the QueueStats returned
     orig |-> NoTaskObject,  \* the Task to_dict is called on
     data |-> NoTaskDict,    \* the dictionary to_dict returned
     back |-> NoTaskObject,  \* the Task from_dict returned
     died |-> None]        \* where the process was when it was killed

HomePc(p) ==
    IF p \in Workers THEN "w_init"
    ELSE IF p \in Clients THEN "c_idle"
    ELSE IF p \in Cancellers THEN "k_idle"
    ELSE IF p \in Monitors THEN "m_idle"
    ELSE "d_idle"

NoHist ==
    [pushes |-> 0, pops |-> 0, attempts |-> 0, failures |-> 0,
     submitted |-> FALSE, cancelled |-> FALSE,
     due_at |-> -1]       \* the score schedule_task gave the id (-1: never scheduled)

\* an empty store
InitData ==
    /\ queue = [p \in TaskPriority |-> <<>>]
    /\ task = [t \in TaskIds |-> NoTask]
    /\ result = [t \in TaskIds |-> NoResult]
    /\ status_set = [s \in TaskStatus |-> {}]
    /\ scheduled = [t \in TaskIds |-> -1]
    /\ workers = {}
    /\ heartbeat = {}
    /\ events = {}
    /\ now = 0
    /\ nextId = 1
    /\ running = [w \in Workers |-> FALSE]
    /\ tasks_processed = [w \in Workers |-> 0]
    /\ tasks_failed = [w \in Workers |-> 0]
    /\ hist = [t \in TaskIds |-> NoHist]
    /\ reachable = TRUE
    /\ raised = [p \in Procs |-> None]
    /\ failed = {}

\* an empty store and every process before its first call
InitStore ==
    /\ InitData
    /\ pc = [p \in Procs |-> HomePc(p)]
    /\ loc = [p \in Procs |-> NoLoc]

\* every TaskQueue object was constructed with USE_REDIS_QUEUE=true and a reachable store
Init ==
    /\ InitStore
    /\ enabled = [p \in Procs |-> TRUE]

\* ------------------------------------------------------------- helpers
Goto(p, l) == pc' = [pc EXCEPT ![p] = l]

Exists(t) == t.task_id # 0

\* LREM key 0 value: every occurrence of id removed, the rest in order
RECURSIVE Lrem(_, _)
Lrem(s, id) ==
    IF s = <<>> THEN <<>>
    ELSE IF Head(s) = id THEN Lrem(Tail(s), id)
    ELSE <<Head(s)>> \o Lrem(Tail(s), id)

RECURSIVE Count(_, _)
Count(s, id) ==
    IF s = <<>> THEN 0
    ELSE (IF Head(s) = id THEN 1 ELSE 0) + Count(Tail(s), id)

\* occurrences of id on all priority lists
RECURSIVE SumOver(_, _)
SumOver(S, id) ==
    IF S = {} THEN 0
    ELSE LET p == CHOOSE x \in S : TRUE
         IN Count(queue[p], id) + SumOver(S \ {p}, id)

Occ(id) == SumOver(TaskPriority, id)

\* a variant of the push that puts the value at the head of the list (LPUSH)
LpushInstead(q, id) == <<id>> \o q

\* RPUSH key value: the value goes to the tail of the list
Rpush(q, id) == Append(q, id)

\* _publish_event: the envelope {type, data, timestamp}, kept as <<type, task_id>>
Publish(type, id) == events' = events \cup {<<type, id>>}

\* ------------------------------------------------------------- TaskQueue.submit_task
\* the caller holds the Task in loc.ltask and the return label in loc.ret

\* setex task_key (lines 148-154)
SubmitSetex(p) ==
    /\ pc[p] = "s_setex"
    /\ task' = [task EXCEPT ![loc[p].cur] = loc[p].ltask]
    /\ Goto(p, "s_rpush")
    /\ UNCHANGED <<queue, result, status_set, scheduled, workers, heartbeat, events,
                   now, nextId, loc, wvars, qvars, hist>>

\* rpush queue_key (lines 156-158)
SubmitRpush(p) ==
    /\ pc[p] = "s_rpush"
    /\ hist[loc[p].cur].pushes < MaxPushes
    /\ queue' = [queue EXCEPT ![loc[p].ltask.priority] = Rpush(@, loc[p].cur)]
    /\ hist' = [hist EXCEPT ![loc[p].cur].pushes = @ + 1]
    /\ Goto(p, "s_sadd")
    /\ UNCHANGED <<task, result, status_set, scheduled, workers, heartbeat, events,
                   now, nextId, loc, wvars, qvars>>

\* a variant of submit_task that does not add the id to the pending set
SubmitSaddSkipped(p) ==
    /\ pc[p] = "s_sadd"
    /\ Goto(p, "s_pub")
    /\ UNCHANGED <<store, now, nextId, loc, wvars, qvars, hist>>

\* sadd status:pending (lines 160-162)
SubmitSadd(p) ==
    /\ pc[p] = "s_sadd"
    /\ status_set' = [status_set EXCEPT !["pending"] = @ \cup {loc[p].cur}]
    /\ Goto(p, "s_pub")
    /\ UNCHANGED <<queue, task, result, scheduled, workers, heartbeat, events,
                   now, nextId, loc, wvars, qvars, hist>>

\* publish task.submitted and return (lines 164-173)
SubmitPublish(p) ==
    /\ pc[p] = "s_pub"
    /\ Publish("task.submitted", loc[p].cur)
    /\ hist' = [hist EXCEPT ![loc[p].cur].submitted = TRUE]
    /\ loc' = [loc EXCEPT ![p].pub = @ + 1]
    /\ Goto(p, loc[p].ret)
    /\ UNCHANGED <<queue, task, result, status_set, scheduled, workers, heartbeat,
                   now, nextId, wvars, qvars>>

\* a client creates a Task (fresh uuid, status PENDING, retry_count 0) and calls
\* submit_task; n bounds the ids it may create
ClientSubmit(c, n, type, prio, mr) ==
    /\ pc[c] = "c_idle"
    /\ nextId <= n
    /\ loc' = [loc EXCEPT ![c] = [NoLoc EXCEPT !.cur = nextId,
                                               !.ltask = NewTask(nextId, type, prio, mr),
                                               !.ret = "c_done",
                                               !.before = Cardinality(status_set["pending"])]]
    /\ nextId' = nextId + 1
    /\ Goto(c, "s_setex")
    /\ UNCHANGED <<store, now, wvars, qvars, hist>>

\* submit_task has returned; the client goes on
ClientDone(c) ==
    /\ pc[c] = "c_done"
    /\ loc' = [loc EXCEPT ![c] = NoLoc]
    /\ Goto(c, "c_idle")
    /\ UNCHANGED <<store, now, nextId, wvars, qvars, hist>>

\* ------------------------------------------------------------- TaskQueue.update_task_status
\* the caller holds the task id in loc.cur, the arguments in loc.ustatus, loc.uwid,
\* loc.uerr and the return label in loc.ret

CallUpdate(l, st, wid, err, r) ==
    [l EXCEPT !.ustatus = st, !.uwid = wid, !.uerr = err, !.ret = r, !.utask = NoTask,
              !.pub = 0]

\* task = self.get_task(task_id); if not task: return (lines 234-236)
UpdateGet(p) ==
    /\ pc[p] = "u_get"
    /\ loc' = [loc EXCEPT ![p].utask = task[loc[p].cur]]
    /\ Goto(p, IF Exists(task[loc[p].cur]) THEN "u_srem" ELSE loc[p].ret)
    /\ UNCHANGED <<store, now, nextId, wvars, qvars, hist>>

\* srem the status set of the status that was read (lines 238-240)
UpdateSrem(p) ==
    /\ pc[p] = "u_srem"
    /\ status_set' = [status_set EXCEPT ![loc[p].utask.status] = @ \ {loc[p].cur}]
    /\ Goto(p, "u_setex")
    /\ UNCHANGED <<queue, task, result, scheduled, workers, heartbeat, events,
                   now, nextId, loc, wvars, qvars, hist>>

\* the Task as update_task_status changes it (lines 242-252)
Updated(t, st, wid, err) ==
    [t EXCEPT !.status = st,
              !.worker_id = IF wid # None THEN wid ELSE @,
              !.error = IF err # None THEN err ELSE @]

\* setex task_key with the updated task (lines 254-260)
UpdateSetex(p) ==
    /\ pc[p] = "u_setex"
    /\ task' = [task EXCEPT ![loc[p].cur] =
                   Updated(loc[p].utask, loc[p].ustatus, loc[p].uwid, loc[p].uerr)]
    /\ Goto(p, "u_sadd")
    /\ UNCHANGED <<queue, result, status_set, scheduled, workers, heartbeat, events,
                   now, nextId, loc, wvars, qvars, hist>>

\* sadd the new status set (lines 262-264)
UpdateSadd(p) ==
    /\ pc[p] = "u_sadd"
    /\ status_set' = [status_set EXCEPT ![loc[p].ustatus] = @ \cup {loc[p].cur}]
    /\ Goto(p, "u_pub")
    /\ UNCHANGED <<queue, task, result, scheduled, workers, heartbeat, events,
                   now, nextId, loc, wvars, qvars, hist>>

\* publish task.status_changed and return (lines 266-271)
UpdatePublish(p) ==
    /\ pc[p] = "u_pub"
    /\ Publish("task.status_changed", loc[p].cur)
    /\ loc' = [loc EXCEPT ![p].pub = @ + 1]
    /\ Goto(p, loc[p].ret)
    /\ UNCHANGED <<queue, task, result, status_set, scheduled, workers, heartbeat,
                   now, nextId, wvars, qvars, hist>>

\* ------------------------------------------------------------- TaskWorker.start
\* running = True; register_worker: sadd workers (worker.py 82-85, task_queue.py 469-470)
WorkerStart(w) ==
    /\ pc[w] = "w_init"
    /\ running' = [running EXCEPT ![w] = TRUE]
    /\ workers' = workers \cup {w}
    /\ Goto(w, "w_reg")
    /\ UNCHANGED <<queue, task, result, status_set, scheduled, heartbeat, events,
                   now, nextId, loc, tasks_processed, tasks_failed, hist, qvars>>

\* register_worker: setex heartbeat key (task_queue.py 472-474); then _work_loop
WorkerRegisterHeartbeat(w) ==
    /\ pc[w] = "w_reg"
    /\ heartbeat' = heartbeat \cup {w}
    /\ Goto(w, "w_loop")
    /\ UNCHANGED <<queue, task, result, status_set, scheduled, workers, events,
                   now, nextId, loc, wvars, qvars, hist>>

\* ------------------------------------------------------------- TaskWorker._work_loop
\* the heartbeat interval has elapsed: worker_heartbeat (worker.py 107-109)
WorkerHeartbeat(w) ==
    /\ pc[w] = "w_loop"
    /\ running[w]
    /\ heartbeat' = heartbeat \cup {w}
    /\ Goto(w, "w_pop")
    /\ UNCHANGED <<queue, task, result, status_set, scheduled, workers, events,
                   now, nextId, loc, wvars, qvars, hist>>

\* get_next_task: blpop of the list at position loc.idx (task_queue.py 197-208);
\* an empty list is the timeout; after the last list the call returns None and the
\* worker sleeps (worker.py 116-118)
\* a variant of the pop that reads the head and leaves it on the list (LINDEX)
PopFromKeeps(q) == q

PopFrom(q) == Tail(q)
Popped(q) == Head(q)

WorkerPop(w) ==
    /\ pc[w] \in {"w_loop", "w_pop"}
    /\ pc[w] = "w_loop" => running[w]       \* while self.running (worker.py 104)
    /\ LET key == DefaultPriorities[loc[w].idx]
       IN IF queue[key] # <<>>
          THEN /\ queue' = [queue EXCEPT ![key] = PopFrom(@)]
               /\ loc' = [loc EXCEPT ![w].cur = Popped(queue[key]), ![w].idx = 1]
               /\ hist' = [hist EXCEPT ![Popped(queue[key])].pops = @ + 1]
               /\ Goto(w, "w_get")
          ELSE /\ loc' = [loc EXCEPT ![w].idx =
                             IF @ < Len(DefaultPriorities) THEN @ + 1 ELSE 1]
               /\ Goto(w, IF loc[w].idx < Len(DefaultPriorities) THEN "w_pop" ELSE "w_loop")
               /\ UNCHANGED <<queue, hist>>
    /\ UNCHANGED <<task, result, status_set, scheduled, workers, heartbeat, events,
                   now, nextId, wvars, qvars>>

\* get_next_task: return self.get_task(task_id) (task_queue.py 204-206); with a task
\* the worker enters _process_task and calls update_task_status(RUNNING, worker_id)
\* (worker.py 114-115, 129-139); without one it sleeps
WorkerGetTask(w) ==
    /\ pc[w] = "w_get"
    /\ IF Exists(task[loc[w].cur])
       THEN /\ loc' = [loc EXCEPT ![w] =
                         CallUpdate([@ EXCEPT !.ltask = task[loc[w].cur]],
                                    "running", w, None, "w_handler")]
            /\ Goto(w, "u_get")
       ELSE /\ loc' = [loc EXCEPT ![w] = NoLoc]
            /\ Goto(w, "w_loop")
    /\ UNCHANGED <<store, now, nextId, wvars, qvars, hist>>
\* ------------------------------------------------------------- TaskWorker._process_task
\* what a handler call can do: a type without a handler raises ValueError
\* (worker.py 143-146); a handler returns a value or raises (worker.py 149, 203-282)
Outcomes(type) ==
    IF type \in HandlerTypes
    THEN {[ok |-> TRUE, val |-> v] : v \in HandlerValues}
         \cup {[ok |-> FALSE, val |-> "handler_error"]}
    ELSE {[ok |-> FALSE, val |-> "no_handler"]}

\* the handler call ends; the worker builds the TaskResult and calls save_result
\* (worker.py 141-163, 170-186)
WorkerHandler(w) ==
    /\ pc[w] = "w_handler"
    /\ \E o \in Outcomes(loc[w].ltask.task_type) :
          /\ loc' = [loc EXCEPT ![w].ok = o.ok, ![w].val = o.val, ![w].utask = NoTask,
                                ![w].ustatus = None, ![w].uwid = None, ![w].ret = None]
          /\ hist' = [hist EXCEPT ![loc[w].cur].attempts = @ + 1,
                                  ![loc[w].cur].failures = IF o.ok THEN @ ELSE @ + 1]
    /\ Goto(w, "r_setex")
    /\ UNCHANGED <<store, now, nextId, wvars, qvars>>

\* the TaskResult the worker builds (worker.py 155-161, 178-184)
WorkerResult(w) ==
    IF loc[w].ok
    THEN NewResult(loc[w].cur, "completed", loc[w].val, None, w)
    ELSE NewResult(loc[w].cur, "failed", None, loc[w].val, w)

\* save_result: setex result_key (task_queue.py 278-283)
SaveResultSetex(w) ==
    /\ pc[w] = "r_setex"
    /\ result' = [result EXCEPT ![loc[w].cur] = WorkerResult(w)]
    /\ Goto(w, "r_get")
    /\ UNCHANGED <<queue, task, status_set, scheduled, workers, heartbeat, events,
                   now, nextId, loc, wvars, qvars, hist>>

\* save_result: task = self.get_task(task_id) (task_queue.py 285-287)
SaveResultGet(w) ==
    /\ pc[w] = "r_get"
    /\ loc' = [loc EXCEPT ![w].utask = task[loc[w].cur]]
    /\ Goto(w, IF Exists(task[loc[w].cur]) THEN "r_task" ELSE "r_pub")
    /\ UNCHANGED <<store, now, nextId, wvars, qvars, hist>>

\* save_result: the task with the result's fields, setex task_key (task_queue.py 288-298)
SaveResultTask(w) ==
    /\ pc[w] = "r_task"
    /\ task' = [task EXCEPT ![loc[w].cur] =
                   [loc[w].utask EXCEPT !.result = WorkerResult(w).result,
                                        !.error = WorkerResult(w).error,
                                        !.status = WorkerResult(w).status]]
    /\ Goto(w, "r_pub")
    /\ UNCHANGED <<queue, result, status_set, scheduled, workers, heartbeat, events,
                   now, nextId, loc, wvars, qvars, hist>>

\* the worker's test before retry_task, on the Task object it claimed (worker.py 189)
WorkerMayRetry(t) == t.retry_count < t.max_retries

\* save_result: publish task.completed and return (task_queue.py 300-305); then the
\* worker calls update_task_status(COMPLETED) (worker.py 164), retry_task
\* (worker.py 189-190) or update_task_status(FAILED, error) (worker.py 192-196)
SaveResultPublish(w) ==
    /\ pc[w] = "r_pub"
    /\ Publish("task.completed", loc[w].cur)
    /\ IF loc[w].ok
       THEN /\ loc' = [loc EXCEPT ![w] = CallUpdate(@, "completed", None, None, "w_ok")]
            /\ Goto(w, "u_get")
       ELSE IF WorkerMayRetry(loc[w].ltask)
       THEN /\ loc' = [loc EXCEPT ![w].utask = NoTask, ![w].pub = 0]
            /\ Goto(w, "t_get")
       ELSE /\ loc' = [loc EXCEPT ![w] = CallUpdate(@, "failed", None, loc[w].val, "w_fail")]
            /\ Goto(w, "u_get")
    /\ UNCHANGED <<queue, task, result, status_set, scheduled, workers, heartbeat,
                   now, nextId, wvars, qvars, hist>>

\* ------------------------------------------------------------- TaskQueue.retry_task
\* the test of retry_task on the stored task (task_queue.py 348)
RetryAllowed(t) == t.retry_count < t.max_retries

\* task = self.get_task(task_id); the budget test (task_queue.py 344-348, 366-368)
RetryGet(w) ==
    /\ pc[w] = "t_get"
    /\ IF ~Exists(task[loc[w].cur])
       THEN /\ loc' = [loc EXCEPT ![w].utask = NoTask]
            /\ Goto(w, "w_fail")
       ELSE IF RetryAllowed(task[loc[w].cur])
       THEN /\ loc' = [loc EXCEPT ![w].utask = task[loc[w].cur]]
            /\ Goto(w, "t_rpush")
       ELSE /\ loc' = [loc EXCEPT ![w] = CallUpdate(@, "failed", None, None, "w_fail")]
            /\ Goto(w, "u_get")
    /\ UNCHANGED <<store, now, nextId, wvars, qvars, hist>>

\* rpush onto the list of the task's priority (task_queue.py 353-355)
RetryRpush(w) ==
    /\ pc[w] = "t_rpush"
    /\ hist[loc[w].cur].pushes < MaxPushes
    /\ queue' = [queue EXCEPT ![loc[w].utask.priority] = Rpush(@, loc[w].cur)]
    /\ hist' = [hist EXCEPT ![loc[w].cur].pushes = @ + 1]
    /\ Goto(w, "t_setex")
    /\ UNCHANGED <<task, result, status_set, scheduled, workers, heartbeat, events,
                   now, nextId, loc, wvars, qvars>>

\* the task as retry_task changes it (task_queue.py 349-351)
Retried(t) ==
    [t EXCEPT !.retry_count = @ + 1, !.status = "retry", !.error = None]

\* setex task_key and return (task_queue.py 357-363)
RetrySetex(w) ==
    /\ pc[w] = "t_setex"
    /\ task' = [task EXCEPT ![loc[w].cur] = Retried(loc[w].utask)]
    /\ Goto(w, "w_fail")
    /\ UNCHANGED <<queue, result, status_set, scheduled, workers, heartbeat, events,
                   now, nextId, loc, wvars, qvars, hist>>

\* success path ends: tasks_processed += 1, current_task = None (worker.py 166, 201)
WorkerDoneOk(w) ==
    /\ pc[w] = "w_ok"
    /\ tasks_processed' = [tasks_processed EXCEPT ![w] = @ + 1]
    /\ loc' = [loc EXCEPT ![w] = NoLoc]
    /\ Goto(w, "w_loop")
    /\ UNCHANGED <<store, now, nextId, running, tasks_failed, hist, qvars>>

\* a variant in which a failed task ends the worker's loop
AfterFailureStops(r) == FALSE

\* the worker's running flag once the except block of _process_task has ended
\* (worker.py 170-201: the exception is handled, the loop's flag is untouched)
AfterFailure(r) == r

\* failure path ends: tasks_failed += 1, current_task = None (worker.py 198, 201)
WorkerDoneFail(w) ==
    /\ pc[w] = "w_fail"
    /\ tasks_failed' = [tasks_failed EXCEPT ![w] = @ + 1]
    /\ running' = [running EXCEPT ![w] = AfterFailure(@)]
    /\ loc' = [loc EXCEPT ![w] = NoLoc]
    /\ Goto(w, "w_loop")
    /\ UNCHANGED <<store, now, nextId, tasks_processed, hist, qvars>>

\* ------------------------------------------------------------- TaskQueue.cancel_task
\* task = self.get_task(task_id); only a PENDING task goes on (task_queue.py 325-329)
CancelGet(k, id) ==
    /\ pc[k] = "k_idle"
    /\ IF Exists(task[id]) /\ task[id].status = "pending"
       THEN /\ loc' = [loc EXCEPT ![k] = [NoLoc EXCEPT !.cur = id, !.utask = task[id]]]
            /\ Goto(k, "k_lrem")
       ELSE /\ loc' = [loc EXCEPT ![k] = NoLoc]
            /\ Goto(k, "k_idle")
    /\ UNCHANGED <<store, now, nextId, wvars, qvars, hist>>

\* lrem queue_key 0 task_id, then update_task_status(CANCELLED) (task_queue.py 330-335)
CancelLrem(k) ==
    /\ pc[k] = "k_lrem"
    /\ queue' = [queue EXCEPT ![loc[k].utask.priority] = Lrem(@, loc[k].cur)]
    /\ loc' = [loc EXCEPT ![k] = CallUpdate(@, "cancelled", None, None, "k_done")]
    /\ Goto(k, "u_get")
    /\ UNCHANGED <<task, result, status_set, scheduled, workers, heartbeat, events,
                   now, nextId, wvars, qvars, hist>>

\* cancel_task returns after its update_task_status (task_queue.py 335-337)
CancelDone(k) ==
    /\ pc[k] = "k_done"
    /\ hist' = [hist EXCEPT ![loc[k].cur].cancelled = TRUE]
    /\ loc' = [loc EXCEPT ![k] = NoLoc]
    /\ Goto(k, "k_idle")
    /\ UNCHANGED <<store, now, nextId, wvars, qvars>>
\* ------------------------------------------------------------- TaskScheduler
\* a client creates a Task and calls schedule_task(task, execute_at): setex task_key
\* (scheduler.py 53-60)
ClientSchedule(c, n, type, prio, mr, at) ==
    /\ pc[c] = "c_idle"
    /\ nextId <= n
    /\ task' = [task EXCEPT ![nextId] = NewTask(nextId, type, prio, mr)]
    /\ loc' = [loc EXCEPT ![c] = [NoLoc EXCEPT !.cur = nextId,
                                               !.ltask = NewTask(nextId, type, prio, mr),
                                               !.score = at]]
    /\ nextId' = nextId + 1
    /\ Goto(c, "h_zadd")
    /\ UNCHANGED <<queue, result, status_set, scheduled, workers, heartbeat, events,
                   now, wvars, qvars, hist>>

\* schedule_task: zadd scheduled {task_id: score} and return (scheduler.py 62-71)
ScheduleZadd(c) ==
    /\ pc[c] = "h_zadd"
    /\ scheduled' = [scheduled EXCEPT ![loc[c].cur] = loc[c].score]
    /\ hist' = [hist EXCEPT ![loc[c].cur].due_at = loc[c].score]
    /\ Goto(c, "c_done")
    /\ UNCHANGED <<queue, task, result, status_set, workers, heartbeat, events,
                   now, nextId, loc, wvars, qvars>>

\* ZRANGEBYSCORE scheduled 0 now: the members with 0 <= score <= now, by score and
\* then by member
RECURSIVE ByScore(_)
ByScore(S) ==
    IF S = {} THEN <<>>
    ELSE LET m == CHOOSE x \in S : \A y \in S :
                     \/ scheduled[x] < scheduled[y]
                     \/ (scheduled[x] = scheduled[y] /\ x <= y)
         IN <<m>> \o ByScore(S \ {m})

\* a variant that returns every member of the scheduled structure, due or not
DueTasksAll == ByScore({t \in TaskIds : scheduled[t] >= 0})

DueTasks == ByScore({t \in TaskIds : scheduled[t] >= 0 /\ scheduled[t] <= now})

\* check_and_submit_due_tasks: due_tasks = zrangebyscore(...) (scheduler.py 101-109)
SchedulerRange(s) ==
    /\ pc[s] = "d_idle"
    /\ loc' = [loc EXCEPT ![s] =
                  [NoLoc EXCEPT !.due = DueTasks, !.at = now, !.submitted = 0,
                                !.dueset = {DueTasks[i] : i \in 1 .. Len(DueTasks)}]]
    /\ Goto(s, IF DueTasks = <<>> THEN "d_idle" ELSE "d_get")
    /\ UNCHANGED <<store, now, nextId, wvars, qvars, hist>>

\* for task_id in due_tasks: task = get_task(task_id); if task: submit_task(task)
\* (scheduler.py 111-118)
SchedulerGet(s) ==
    /\ pc[s] = "d_get"
    /\ LET id == Head(loc[s].due)
       IN /\ loc' = [loc EXCEPT ![s].cur = id, ![s].ltask = task[id], ![s].ret = "d_zrem",
                                   ![s].submitted = IF Exists(task[id]) THEN @ + 1 ELSE @,
                                   ![s].pub = 0]
          /\ Goto(s, IF Exists(task[id]) THEN "s_setex" ELSE "d_zrem")
    /\ UNCHANGED <<store, now, nextId, wvars, qvars, hist>>

\* zrem scheduled task_id; next due task or return (scheduler.py 120-126)
SchedulerZrem(s) ==
    /\ pc[s] = "d_zrem"
    /\ scheduled' = [scheduled EXCEPT ![loc[s].cur] = -1]
    /\ loc' = [loc EXCEPT ![s] =
                  [NoLoc EXCEPT !.due = Tail(loc[s].due), !.at = loc[s].at,
                                !.dueset = loc[s].dueset, !.submitted = loc[s].submitted]]
    /\ Goto(s, IF Tail(loc[s].due) = <<>> THEN "d_idle" ELSE "d_get")
    /\ UNCHANGED <<queue, task, result, status_set, workers, heartbeat, events,
                   now, nextId, wvars, qvars, hist>>

\* time passes
Tick ==
    /\ now < MaxTime
    /\ now' = now + 1
    /\ UNCHANGED <<store, nextId, pc, loc, wvars, qvars, hist>>

\* ------------------------------------------------------------- specifications
SubmitStep(p) ==
    \/ SubmitSetex(p)
    \/ SubmitRpush(p)
    \/ SubmitSadd(p)
    \/ SubmitPublish(p)

UpdateStep(p) ==
    \/ UpdateGet(p)
    \/ UpdateSrem(p)
    \/ UpdateSetex(p)
    \/ UpdateSadd(p)
    \/ UpdatePublish(p)

\* one step of a worker whose heartbeat interval does not elapse
WorkerStep(w) ==
    \/ WorkerStart(w)
    \/ WorkerRegisterHeartbeat(w)
    \/ WorkerPop(w)
    \/ WorkerGetTask(w)
    \/ UpdateStep(w)
    \/ WorkerHandler(w)
    \/ SaveResultSetex(w)
    \/ SaveResultGet(w)
    \/ SaveResultTask(w)
    \/ SaveResultPublish(w)
    \/ RetryGet(w)
    \/ RetryRpush(w)
    \/ RetrySetex(w)
    \/ WorkerDoneOk(w)
    \/ WorkerDoneFail(w)

\* one step of a client that submits at most n tasks drawn from the given inputs
ClientStep(c, n, types, prios, retries) ==
    \/ \E type \in types, prio \in prios, mr \in retries :
          ClientSubmit(c, n, type, prio, mr)
    \/ SubmitStep(c)
    \/ ClientDone(c)

\* cancel_task is called with an id that submit_task has returned
CancelStep(k) ==
    \/ \E id \in TaskIds : hist[id].submitted /\ CancelGet(k, id)
    \/ CancelLrem(k)
    \/ UpdateStep(k)
    \/ CancelDone(k)

SchedulerStep(s) ==
    \/ SchedulerRange(s)
    \/ SchedulerGet(s)
    \/ SubmitStep(s)
    \/ SchedulerZrem(s)

WorkersQuiet == \A w \in Workers : pc[w] \in {"w_init", "w_loop"}
ClientsQuiet == \A c \in Clients : pc[c] = "c_idle"

\* SpecPair: one task, submitted once, and two workers, all concurrent
NextPair ==
    \/ \E c \in Clients :
          ClientStep(c, 1, {"agent_query"}, {NORMAL}, {0, MaxRetriesBound})
    \/ \E w \in Workers : WorkerStep(w)

SpecPair == Init /\ [][NextPair]_vars

\* SpecOne: a client submitting tasks while one worker runs, concurrently
NextOne ==
    \/ \E c \in Clients :
          ClientStep(c, NumTasks, {"agent_query", "webhook"}, {NORMAL, URGENT},
                     {MaxRetriesBound})
    \/ WorkerStep("w1")
    \/ WorkerHeartbeat("w1")

SpecOne == Init /\ [][NextOne]_vars

\* SpecSeq: one client and one worker, no call overlapping another: the client
\* submits only between two iterations of the worker's loop, and the worker steps
\* only while no submit_task call is in progress
NextSeq ==
    \/ /\ WorkersQuiet
       /\ \E c \in Clients :
             ClientStep(c, SeqTasks, {"agent_query"}, {LOW, NORMAL, URGENT},
                        {MaxRetriesBound})
    \/ /\ ClientsQuiet
       /\ WorkerStep("w1")

SpecSeq == Init /\ [][NextSeq]_vars

\* SpecCancel: one task, a worker and a client calling cancel_task, all concurrent
NextCancel ==
    \/ \E c \in Clients :
          ClientStep(c, 1, {"agent_query"}, {NORMAL}, {MaxRetriesBound})
    \/ WorkerStep("w1")
    \/ \E k \in Cancellers : CancelStep(k)

SpecCancel == Init /\ [][NextCancel]_vars

\* a worker's steps up to the handler call, for handlers that do not return
WorkerClaimStep(w) ==
    \/ WorkerStart(w)
    \/ WorkerRegisterHeartbeat(w)
    \/ WorkerPop(w)
    \/ WorkerGetTask(w)
    \/ UpdateStep(w)

\* SpecSched: one task scheduled for now, two scheduler instances promoting due
\* tasks and two workers claiming them, all concurrent
NextSched ==
    \/ \E c \in Clients : ClientSchedule(c, 1, "agent_query", NORMAL, 0, now)
    \/ \E c \in Clients : ScheduleZadd(c) \/ ClientDone(c)
    \/ \E s \in Schedulers : SchedulerStep(s)
    \/ \E w \in Workers : WorkerClaimStep(w)

SpecSched == Init /\ [][NextSched]_vars

\* Spec: the whole system
Next ==
    \/ \E c \in Clients :
          ClientStep(c, NumTasks, {"agent_query", "webhook"}, {NORMAL, URGENT},
                     {0, MaxRetriesBound})
    \/ \E c \in Clients, at \in 0 .. MaxTime :
          ClientSchedule(c, NumTasks, "agent_query", NORMAL, 0, at)
    \/ \E c \in Clients : ScheduleZadd(c)
    \/ \E w \in Workers : WorkerStep(w) \/ WorkerHeartbeat(w)
    \/ \E k \in Cancellers : CancelStep(k)
    \/ \E s \in Schedulers : SchedulerStep(s)
    \/ Tick

Spec == Init /\ [][Next]_vars
\* ------------------------------------------------------------- claims
StatusSetsOf(t) == {s \in TaskStatus : t \in status_set[s]}

\* a worker holds task id t: it has claimed t and not yet ended _process_task
Holds(w, t) == loc[w].cur = t /\ pc[w] \notin {"w_init", "w_reg", "w_loop", "w_pop"}

\* C1: every task id that has been submitted belongs to exactly one of the status
\* sets, in every state of the store
C1_ExactlyOneStatusSet ==
    \A t \in TaskIds : hist[t].submitted => Cardinality(StatusSetsOf(t)) = 1

\* task id t has come to rest: it was dispatched, is on no list and no worker holds it
AtRest(t) ==
    /\ hist[t].attempts >= 1
    /\ Occ(t) = 0
    /\ \A w \in Workers : ~Holds(w, t)

\* C2: a task is dispatched to a handler at most max_retries + 1 times, its
\* retry_count never exceeds max_retries, and a task all of whose attempts failed
\* comes to rest with status FAILED, in the failed set, with retry_count = max_retries
C2_RetryBound ==
    \A t \in TaskIds : Exists(task[t]) =>
        /\ hist[t].attempts <= task[t].max_retries + 1
        /\ task[t].retry_count <= task[t].max_retries
        /\ (AtRest(t) /\ hist[t].failures = hist[t].attempts) =>
              /\ task[t].status = "failed"
              /\ t \in status_set["failed"]
              /\ task[t].retry_count = task[t].max_retries

\* C3: a get_next_task call that no submission overlaps returns a task from the
\* highest-priority list that is not empty: no id waits on a list of a higher
\* priority than the task just returned
C3_HighestPriorityFirst ==
    \A w \in Workers : pc[w] = "w_get" =>
        \A p \in TaskPriority :
            p > task[loc[w].cur].priority => queue[p] = <<>>

\* tasks 1, 2, 3 submitted as LOW, URGENT, NORMAL; the first call returned URGENT
C3_Witness ==
    /\ pc["w1"] = "w_get"
    /\ loc["w1"].cur = 2
    /\ task[1].priority = LOW /\ task[2].priority = URGENT /\ task[3].priority = NORMAL
    /\ queue[LOW] = <<1>> /\ queue[NORMAL] = <<3>> /\ queue[URGENT] = <<>>
    /\ hist[1].pops = 0 /\ hist[3].pops = 0

\* what one step may do to one priority list: nothing, a push at its tail, or a
\* claim that takes its head
FifoStep(p) ==
    \/ queue'[p] = queue[p]
    \/ \E t \in TaskIds : queue'[p] = Append(queue[p], t)
    \/ /\ queue[p] # <<>>
       /\ queue'[p] = Tail(queue[p])
       /\ \E w \in Workers :
             /\ pc[w] # "w_get"
             /\ pc'[w] = "w_get"
             /\ loc'[w].cur = Head(queue[p])

\* C4: within one priority level ids are claimed in the order they were pushed (by
\* submit or by retry): every push goes to the tail of its list and every claim
\* returns the head
C4_Fifo == [][\A p \in TaskPriority : FifoStep(p)]_vars

\* ids 1 and 2 were pushed in this order onto the same list; 1 is claimed, 2 waits
C4_Witness ==
    /\ pc["w1"] = "w_get"
    /\ loc["w1"].cur = 1
    /\ task[1].priority = task[2].priority
    /\ queue[task[2].priority] = <<2>>
    /\ hist[2].pops = 0

\* C5: one queued occurrence of an id is handed to at most one claimant: an id is
\* never returned more often than it was pushed, and each return takes one
\* occurrence off the lists
C5_AtMostOneClaimant ==
    \A t \in TaskIds :
        /\ hist[t].pops <= hist[t].pushes
        /\ Occ(t) + hist[t].pops = hist[t].pushes
        /\ Cardinality({w \in Workers : pc[w] = "w_get" /\ loc[w].cur = t}) <= 1

\* both workers were polling lists that held one id: w1 got it, w2 goes on polling
C5_Witness ==
    /\ pc["w1"] = "w_get" /\ loc["w1"].cur = 1
    /\ pc["w2"] = "w_pop"
    /\ hist[1].pushes = 1 /\ hist[1].pops = 1
    /\ \A p \in TaskPriority : queue[p] = <<>>

\* C6: no two workers execute a handler for the same task id at the same time, and
\* while a worker executes a task the stored worker_id is that worker's id
C6_ExclusiveExecution ==
    /\ \A w1, w2 \in Workers :
          (w1 # w2 /\ pc[w1] = "w_handler" /\ pc[w2] = "w_handler")
              => loc[w1].cur # loc[w2].cur
    /\ \A w \in Workers :
          pc[w] = "w_handler" => task[loc[w].cur].worker_id = w

\* C7: once cancel_task has found the stored status PENDING and has returned, no
\* later get_next_task call returns the id
C7_CancelledNeverClaimed ==
    [][\A w \in Workers :
          (pc[w] # "w_get" /\ pc'[w] = "w_get") => ~hist[loc'[w].cur].cancelled]_vars

\* C8: when submit_task has returned for a new task and nothing has claimed it, the
\* stored status is PENDING, the id is in the pending set, it is once on the list of
\* its priority and on no other list, and the pending count is one more than before
C8_SubmitVisible ==
    \A c \in Clients : pc[c] = "c_done" =>
        LET t == loc[c].cur
        IN /\ task[t].task_id = t
           /\ task[t].status = "pending"
           /\ t \in status_set["pending"]
           /\ Count(queue[loc[c].ltask.priority], t) = 1
           /\ Occ(t) = 1
           /\ Cardinality(status_set["pending"]) = loc[c].before + 1

\* submit_task has returned for the third task: the first was claimed before, the
\* second still waits in the pending set
C8_Witness ==
    /\ pc["c1"] = "c_done"
    /\ loc["c1"].cur = 3
    /\ loc["c1"].before = 1
    /\ hist[1].attempts >= 1
    /\ hist[2].pops = 0

\* C9: when the handler returned v and the worker has finished the task, the stored
\* result is COMPLETED with result v and the stored task status is COMPLETED
C9_ResultAfterSuccess ==
    \A w \in Workers : pc[w] = "w_ok" =>
        /\ result[loc[w].cur].status = "completed"
        /\ result[loc[w].cur].result = loc[w].val
        /\ task[loc[w].cur].status = "completed"

\* C10: when a dispatch raised (an unknown type included), the worker has saved a
\* FAILED result with the error text, the task is re-queued by retry_task or is
\* terminally FAILED, and the worker's loop is still running
C10_FailureHandled ==
    \A w \in Workers :
        /\ pc[w] \notin {"w_init"} => running[w]
        /\ pc[w] = "w_fail" =>
              LET t == loc[w].cur
              IN /\ result[t].status = "failed"
                 /\ result[t].error = loc[w].val
                 /\ loc[w].val \in {"handler_error", "no_handler"}
                 /\ IF WorkerMayRetry(loc[w].ltask)
                    THEN /\ task[t].status = "retry"
                         /\ task[t].retry_count = loc[w].ltask.retry_count + 1
                         /\ Count(queue[task[t].priority], t) = 1
                    ELSE /\ task[t].status = "failed"
                         /\ t \in status_set["failed"]

\* after a task of a type without handler failed, the worker has claimed a task again
C10_Witness ==
    /\ pc["w1"] = "w_get"
    /\ tasks_failed["w1"] >= 1
    /\ \E t \in TaskIds : result[t].error = "no_handler"

\* ------------------------------------------------------------- worker crash
\* the worker process is killed at any point after start(): nothing of _cleanup runs
\* (worker.py 89-92 is not reached by SIGKILL or a power loss)
Crash(w) ==
    /\ pc[w] \notin {"w_init", "w_dead", "w_stopped"}
    /\ loc' = [loc EXCEPT ![w].died = pc[w]]
    /\ Goto(w, "w_dead")
    /\ UNCHANGED <<store, now, nextId, wvars, hist, qvars>>

\* a worker's steps for tasks with max_retries = 0: retry_task is never called
\* (worker.py 189)
WorkerOnceStep(w) ==
    \/ WorkerStart(w)
    \/ WorkerRegisterHeartbeat(w)
    \/ WorkerPop(w)
    \/ WorkerGetTask(w)
    \/ UpdateStep(w)
    \/ WorkerHandler(w)
    \/ SaveResultSetex(w)
    \/ SaveResultGet(w)
    \/ SaveResultTask(w)
    \/ SaveResultPublish(w)
    \/ WorkerDoneOk(w)
    \/ WorkerDoneFail(w)

\* one task, worker w1 that keeps running and worker w2 that may crash
NextLive ==
    \/ \E c \in Clients : ClientStep(c, 1, {"agent_query"}, {NORMAL}, {0})
    \/ WorkerOnceStep("w1")
    \/ WorkerOnceStep("w2")
    \/ Crash("w2")

\* the client finishes its call and worker w1 runs its claim loop fairly; handlers
\* terminate (WorkerHandler is a step of WorkerStep)
SpecLive ==
    /\ Init
    /\ [][NextLive]_vars
    /\ WF_vars(\E c \in Clients : ClientStep(c, 1, {"agent_query"}, {NORMAL}, {0}))
    /\ WF_vars(WorkerOnceStep("w1"))

\* the same without the crash, both workers fair
NextLiveNoCrash ==
    \/ \E c \in Clients : ClientStep(c, 1, {"agent_query"}, {NORMAL}, {0})
    \/ WorkerOnceStep("w1")
    \/ WorkerOnceStep("w2")

SpecLiveNoCrash ==
    /\ Init
    /\ [][NextLiveNoCrash]_vars
    /\ WF_vars(\E c \in Clients : ClientStep(c, 1, {"agent_query"}, {NORMAL}, {0}))
    /\ WF_vars(WorkerOnceStep("w1"))
    /\ WF_vars(WorkerOnceStep("w2"))

\* C11: every task accepted by submit_task and not cancelled is eventually dispatched
\* to a handler and eventually has a terminal status (COMPLETED or FAILED), when one
\* worker keeps running its loop and another worker may crash at any point
C11_AtLeastOnce ==
    \A t \in TaskIds :
        hist[t].submitted ~>
            (hist[t].attempts >= 1 /\ task[t].status \in {"completed", "failed"})

\* C12: check_and_submit_due_tasks, called repeatedly and by several scheduler
\* instances at once, pushes a scheduled task id onto a priority list at most once
C12_PromotedAtMostOnce ==
    \A t \in TaskIds : hist[t].pushes <= 1 /\ Occ(t) <= 1

\* ------------------------------------------------------------- scheduling over time
SchedulersQuiet == \A s \in Schedulers : pc[s] = "d_idle"

\* SpecDue: up to NumTasks tasks scheduled for now, now + 1 or now + 2, one scheduler
\* instance whose calls do not overlap the schedule_task calls, and the clock
NextDue ==
    \/ /\ SchedulersQuiet
       /\ \E c \in Clients : \E d \in 0 .. 2 :
             ClientSchedule(c, NumTasks, "agent_query", NORMAL, 0, now + d)
    \/ SchedulersQuiet /\ \E c \in Clients : ScheduleZadd(c)
    \/ SchedulersQuiet /\ \E c \in Clients : ClientDone(c)
    \/ ClientsQuiet /\ SchedulerStep("s1")
    \/ Tick

SpecDue == Init /\ [][NextDue]_vars

\* C13: a scheduled task is on no priority list before its execute-at time; a
\* check_and_submit_due_tasks call submits exactly the ids that were due when it
\* began, each once, and removes them from the scheduled structure; no id is ever
\* submitted a second time by a later call
C13_PromotedWhenDue ==
    /\ \A t \in TaskIds :
          /\ hist[t].pushes <= 1
          /\ hist[t].pushes >= 1 => (hist[t].due_at >= 0 /\ hist[t].due_at <= now)
          /\ (hist[t].due_at > now) => (Occ(t) = 0 /\ scheduled[t] = hist[t].due_at)
    /\ \A s \in Schedulers :
          (pc[s] = "d_idle" /\ loc[s].at >= 0) =>
              /\ loc[s].submitted = Cardinality(loc[s].dueset)
              /\ \A t \in TaskIds : hist[t].due_at > loc[s].at => t \notin loc[s].dueset
              /\ \A t \in loc[s].dueset :
                    /\ scheduled[t] = -1
                    /\ hist[t].pushes = 1
                    /\ Occ(t) = 1

\* task 1 was scheduled for time 1 and promoted by a call made at time 1; a later call
\* has returned 0 submitted tasks and task 1 is still once on its list
C13_Witness ==
    /\ pc["s1"] = "d_idle"
    /\ loc["s1"].at = 1
    /\ loc["s1"].submitted = 0
    /\ hist[1].due_at = 1
    /\ hist[1].pushes = 1
    /\ scheduled[1] = -1
    /\ Occ(1) = 1

\* ------------------------------------------------------------- unavailable queue
\* the methods that begin with "if not self.is_available()"
QueueOps ==
    {"submit_task", "get_next_task", "get_task", "update_task_status", "save_result",
     "get_result", "cancel_task", "retry_task", "get_queue_stats", "list_tasks",
     "register_worker", "worker_heartbeat", "cleanup_stale_workers",
     "schedule_task", "check_and_submit_due_tasks", "start"}

\* what the method does when is_available() is false: submit_task (task_queue.py
\* 145-146) and schedule_task (scheduler.py 50-51) raise, every other method returns
UnavailableRaises(op) ==
    IF op \in {"submit_task", "schedule_task"} THEN "RuntimeError" ELSE None

\* the value returned when is_available() is false
UnavailableReturn(op) ==
    CASE op \in {"get_task", "get_result", "get_next_task"} -> None
      [] op = "list_tasks" -> "[]"
      [] op = "get_queue_stats" -> "QueueStats()"
      [] op = "check_and_submit_due_tasks" -> "0"
      [] OTHER -> None

\* a call of a method on a TaskQueue for which is_available() is false: no store call
\* is made
UnavailableCall(p, op) ==
    /\ pc[p] = HomePc(p)
    /\ ~enabled[p]
    /\ raised' = [raised EXCEPT ![p] = UnavailableRaises(op)]
    /\ loc' = [loc EXCEPT ![p] = [NoLoc EXCEPT !.op = op, !.val = UnavailableReturn(op)]]
    /\ UNCHANGED <<store, now, nextId, pc, wvars, hist, enabled, reachable, failed>>

\* the processes whose TaskQueue may have been constructed unavailable
MayBeDown == {"c1", "k1", "w1"}

\* construction left enabled False for some of the processes (USE_REDIS_QUEUE unset,
\* or the store unreachable in _initialize_redis, task_queue.py 67, 113-117)
InitDown ==
    /\ InitStore
    /\ enabled \in {f \in [Procs -> BOOLEAN] : \A p \in Procs \ MayBeDown : f[p]}

\* SpecDown: one task; a client, a canceller and a worker, each with an available or
\* an unavailable queue object
NextDown ==
    \/ \E c \in Clients :
          enabled[c] /\ ClientStep(c, 1, {"agent_query"}, {NORMAL}, {MaxRetriesBound})
    \/ enabled["w1"] /\ WorkerStep("w1")
    \/ \E k \in Cancellers : enabled[k] /\ CancelStep(k)
    \/ \E p \in MayBeDown : \E op \in QueueOps : UnavailableCall(p, op)

SpecDown == InitDown /\ [][NextDown]_vars

\* C14: a method called while is_available() is false returns without raising, and
\* its call changes nothing in the store
C14_UnavailableIsSilent ==
    \A p \in Procs : ~enabled[p] => raised[p] = None

\* ------------------------------------------------------------- unreachable store
\* the backing store stops answering (network partition, Redis down)
StoreDown ==
    /\ reachable
    /\ reachable' = FALSE
    /\ UNCHANGED <<store, now, nextId, pc, loc, wvars, hist, enabled, raised, failed>>

\* the positions of a client or canceller at which the next statement is a store call
\* outside any try block: submit_task 150-162, cancel_task 325-332, update_task_status
\* 234-264
StoreCallPcs == {"s_setex", "s_rpush", "s_sadd", "k_lrem", "u_get", "u_srem", "u_setex", "u_sadd"}

\* the store call raises redis.ConnectionError; no method of TaskQueue catches it, so
\* it reaches the caller of the queue method; enabled and redis_client keep their
\* values (they are assigned only in __init__ and _initialize_redis, 67-73, 113-117)
StoreCallFails(p) ==
    /\ ~reachable
    /\ pc[p] \in StoreCallPcs
    /\ raised' = [raised EXCEPT ![p] = "ConnectionError"]
    /\ failed' = failed \cup {p}
    /\ loc' = [loc EXCEPT ![p] = NoLoc]
    /\ Goto(p, HomePc(p))
    /\ UNCHANGED <<store, now, nextId, wvars, hist, enabled, reachable>>

\* cancel_task called while the store is unreachable: its get_task raises (325, 216)
CancelCallFails(k) ==
    /\ ~reachable
    /\ pc[k] = "k_idle"
    /\ raised[k] = None
    /\ raised' = [raised EXCEPT ![k] = "ConnectionError"]
    /\ failed' = failed \cup {k}
    /\ UNCHANGED <<store, now, nextId, pc, loc, wvars, hist, enabled, reachable>>

\* _publish_event catches the exception of its publish call and prints it
\* (task_queue.py 442-451); the calling method goes on and returns
PublishFails(p) ==
    /\ ~reachable
    /\ pc[p] \in {"s_pub", "u_pub"}
    /\ failed' = failed \cup {p}
    /\ hist' = IF pc[p] = "s_pub"
               THEN [hist EXCEPT ![loc[p].cur].submitted = TRUE]
               ELSE hist
    /\ Goto(p, loc[p].ret)
    /\ UNCHANGED <<store, now, nextId, loc, wvars, enabled, reachable, raised>>

\* SpecFault: a client submitting up to NumTasks tasks and a canceller; the store
\* becomes unreachable at any point
NextFault ==
    \/ \E c \in Clients :
          reachable /\ ClientStep(c, NumTasks, {"agent_query"}, {NORMAL, HIGH}, {0})
    \/ \E k \in Cancellers : reachable /\ CancelStep(k)
    \/ StoreDown
    \/ \E p \in Clients \cup Cancellers : StoreCallFails(p)
    \/ \E p \in Clients \cup Cancellers : PublishFails(p)
    \/ \E k \in Cancellers : CancelCallFails(k)
    \/ \E c \in Clients :
          /\ ~reachable
          /\ pc[c] \in {"c_idle", "c_done"}       \* creating a Task makes no store call
          /\ ClientStep(c, NumTasks, {"agent_query"}, {NORMAL, HIGH}, {0})

SpecFault == Init /\ [][NextFault]_vars

\* C15: a call during which the store is found unreachable lets no exception through
\* to its caller, and is_available() is false for that queue object from then on
C15_FailureEntersUnavailable ==
    \A p \in failed : raised[p] # "ConnectionError" /\ ~enabled[p]

\* ------------------------------------------------------------- task payloads
\* the payload key each handler reads and requires (worker.py 209-211, 236-238,
\* 252-254); the other task types have no handler
RequiredField(type) ==
    CASE type = "agent_query" -> "query"
      [] type = "document_index" -> "document_path"
      [] type = "batch_query" -> "queries"
      [] OTHER -> None

\* a payload is kept as the one key it holds, or "empty" for {}
Payloads == {"query", "document_path", "queries", "empty"}

ValidPayload(t) == RequiredField(t.task_type) \in {None, t.payload}

\* AgentTask.__post_init__ raises ValueError without 'query' in the payload
\* (task_models.py 110-113); Task has no __post_init__
ConstructorRaises(cls, payload) == cls = "AgentTask" /\ payload # "query"

\* a client constructs Task(...) or AgentTask(...) with the given payload and, when the
\* constructor returned, calls submit_task, which stores what it is given
\* (task_queue.py 145-154)
ClientSubmitPayload(c, n, cls, type, prio, mr, payload) ==
    /\ pc[c] = "c_idle"
    /\ nextId <= n
    /\ cls = "AgentTask" => type = "agent_query"
    /\ IF ConstructorRaises(cls, payload)
       THEN /\ raised' = [raised EXCEPT ![c] = "ValueError"]
            /\ UNCHANGED <<loc, nextId, pc>>
       ELSE /\ loc' = [loc EXCEPT ![c] =
                         [NoLoc EXCEPT !.cur = nextId,
                                       !.ltask = [NewTask(nextId, type, prio, mr)
                                                     EXCEPT !.payload = payload],
                                       !.ret = "c_done",
                                       !.before = Cardinality(status_set["pending"])]]
            /\ nextId' = nextId + 1
            /\ raised' = [raised EXCEPT ![c] = None]
            /\ Goto(c, "s_setex")
    /\ UNCHANGED <<store, now, wvars, hist, enabled, reachable, failed>>

\* SpecPayload: a client submitting up to NumTasks tasks of any class, handled type
\* and payload
NextPayload ==
    \/ \E c \in Clients : \E cls \in {"Task", "AgentTask"} :
          \E type \in HandlerTypes : \E payload \in Payloads :
             ClientSubmitPayload(c, NumTasks, cls, type, NORMAL, 0, payload)
    \/ \E c \in Clients : SubmitStep(c)
    \/ \E c \in Clients : ClientDone(c)

SpecPayload == Init /\ [][NextPayload]_vars

\* C16: a task whose type requires a payload field that is missing is never stored,
\* never on a priority list and never in the pending status set
C16_InvalidNeverStored ==
    \A t \in TaskIds :
        (Exists(task[t]) \/ Occ(t) > 0 \/ t \in status_set["pending"])
            => (Exists(task[t]) /\ ValidPayload(task[t]))

\* C17: every queue call that changes stored task state (submit_task,
\* update_task_status, save_result, retry_task, cancel_task) has published at least one
\* event on the channel when it returns
C17_EveryChangePublishes ==
    \A p \in Procs :
        /\ (pc[p] = "c_done" /\ loc[p].ret = "c_done") => loc[p].pub >= 1
        /\ (pc[p] \in {"w_handler", "w_ok", "w_fail", "k_done"} /\ Exists(loc[p].utask))
              => loc[p].pub >= 1

\* ------------------------------------------------------------- TaskWorker.stop
\* SIGINT or SIGTERM arrives: _signal_handler calls stop(), which sets running = False
\* (worker.py 70-73, 94-97); the interrupted statement then goes on
StopSignal(w) ==
    /\ pc[w] \notin {"w_init", "w_stopped", "w_dead"}
    /\ running[w]
    /\ running' = [running EXCEPT ![w] = FALSE]
    /\ UNCHANGED <<store, now, nextId, pc, loc, tasks_processed, tasks_failed, hist, qvars>>

\* the loop condition is false: _work_loop returns and _cleanup calls
\* unregister_worker, srem workers (worker.py 104, 91-92, 293-294; task_queue.py 481-482)
WorkerExit(w) ==
    /\ pc[w] = "w_loop"
    /\ ~running[w]
    /\ workers' = workers \ {w}
    /\ Goto(w, "w_stopped")
    /\ UNCHANGED <<queue, task, result, status_set, scheduled, heartbeat, events,
                   now, nextId, loc, wvars, qvars, hist>>

\* SpecStop: a client submitting up to NumTasks tasks and one worker that receives the
\* signal at any point
NextStop ==
    \/ \E c \in Clients : ClientStep(c, NumTasks, {"agent_query"}, {NORMAL, LOW}, {0})
    \/ WorkerOnceStep("w1")
    \/ StopSignal("w1")
    \/ WorkerExit("w1")

SpecStop == Init /\ [][NextStop]_vars

\* C18: after stop() was called the worker claims no further task: get_next_task
\* hands a task to a worker only while its running flag is still set; a worker that
\* has stopped is no longer in the worker set and holds no unfinished task
C18_GracefulDrain ==
    [][/\ \A w \in Workers :
             (pc[w] # "w_get" /\ pc'[w] = "w_get") => running[w]
       /\ \A w \in Workers :
             pc'[w] = "w_stopped" => (w \notin workers' /\ loc'[w].cur = 0)]_vars

\* ------------------------------------------------------------- stale workers
\* the heartbeat key of w reaches its TTL of 60 s without a refresh and is deleted by
\* the store (task_queue.py 474, 490)
HeartbeatExpire(w) ==
    /\ w \in heartbeat
    /\ heartbeat' = heartbeat \ {w}
    /\ UNCHANGED <<queue, task, result, status_set, scheduled, workers, events,
                   now, nextId, pc, loc, wvars, qvars, hist>>

\* a variant of the test that takes every worker for stale
IsStaleAlways(w) == TRUE

\* not self.redis_client.exists(heartbeat_key) (task_queue.py 501-502)
IsStale(w) == w \notin heartbeat

\* cleanup_stale_workers: workers = smembers(worker_key) (task_queue.py 497-498)
SweepMembers(m) ==
    /\ pc[m] = "m_idle"
    /\ loc' = [loc EXCEPT ![m] = [NoLoc EXCEPT !.seen = workers, !.members = workers]]
    /\ Goto(m, IF workers = {} THEN "m_done" ELSE "m_check")
    /\ UNCHANGED <<store, now, nextId, wvars, qvars, hist>>

\* for worker_id in workers: exists(heartbeat_key) (task_queue.py 500-502); a set is
\* iterated in no particular order
SweepExists(m) ==
    /\ pc[m] = "m_check"
    /\ \E w \in loc[m].seen :
          IF IsStale(w)
          THEN /\ loc' = [loc EXCEPT ![m].val = w]
               /\ Goto(m, "m_srem")
          ELSE /\ loc' = [loc EXCEPT ![m].seen = @ \ {w}]
               /\ Goto(m, IF loc[m].seen = {w} THEN "m_done" ELSE "m_check")
    /\ UNCHANGED <<store, now, nextId, wvars, qvars, hist>>

\* unregister_worker(worker_id): srem workers (task_queue.py 503, 481-482)
SweepSrem(m) ==
    /\ pc[m] = "m_srem"
    /\ workers' = workers \ {loc[m].val}
    /\ loc' = [loc EXCEPT ![m].seen = @ \ {loc[m].val}, ![m].val = None]
    /\ Goto(m, IF loc[m].seen = {loc[m].val} THEN "m_done" ELSE "m_check")
    /\ UNCHANGED <<queue, task, result, status_set, scheduled, heartbeat, events,
                   now, nextId, wvars, qvars, hist>>

\* cleanup_stale_workers has returned
SweepDone(m) ==
    /\ pc[m] = "m_done"
    /\ loc' = [loc EXCEPT ![m] = NoLoc]
    /\ Goto(m, "m_idle")
    /\ UNCHANGED <<store, now, nextId, wvars, qvars, hist>>

SweepStep(m) ==
    \/ SweepMembers(m)
    \/ SweepExists(m)
    \/ SweepSrem(m)
    \/ SweepDone(m)

MonitorsQuiet == \A m \in Monitors : pc[m] = "m_idle"

\* a worker that registers, refreshes its heartbeat and polls empty lists, and may be
\* stopped or killed
WorkerIdleStep(w) ==
    \/ WorkerStart(w)
    \/ WorkerRegisterHeartbeat(w)
    \/ WorkerHeartbeat(w)
    \/ WorkerPop(w)
    \/ StopSignal(w)
    \/ WorkerExit(w)
    \/ Crash(w)

\* SpecSweep: two workers, heartbeat keys that expire, and a monitor whose sweeps do
\* not overlap the steps of the workers or an expiry
NextSweep ==
    \/ MonitorsQuiet /\ \E w \in Workers : WorkerIdleStep(w)
    \/ MonitorsQuiet /\ \E w \in Workers : HeartbeatExpire(w)
    \/ \E m \in Monitors : SweepStep(m)

SpecSweep == Init /\ [][NextSweep]_vars

\* C19: when cleanup_stale_workers returns, the worker set holds exactly the ids it
\* held before whose heartbeat key is live; a step that only expires a heartbeat key
\* leaves the worker set as it is
C19_SweepRemovesExpired ==
    [][/\ \A m \in Monitors :
             (pc[m] # "m_done" /\ pc'[m] = "m_done") =>
                 workers' = {w \in loc'[m].members : w \in heartbeat'}
       /\ (heartbeat' # heartbeat /\ heartbeat' \subseteq heartbeat) => workers' = workers]_vars

\* a sweep over {w1, w2} has returned: the key of w1 had expired and w1 is removed,
\* the key of w2 is live and w2 stays registered
C19_Witness ==
    /\ pc["m1"] = "m_done"
    /\ loc["m1"].members = {"w1", "w2"}
    /\ heartbeat = {"w2"}
    /\ workers = {"w2"}

\* ------------------------------------------------------------- statistics
\* the members of TaskStatus in the order "for status in TaskStatus" visits them
TaskStatusOrder == <<"pending", "running", "completed", "failed", "cancelled", "retry">>

\* a variant that computes the rate as TaskWorker.get_status does
SuccessRateOfProcessed(ncompleted, nfailed) ==
    IF ncompleted + nfailed > 0 THEN <<ncompleted - nfailed, ncompleted + nfailed>> ELSE <<0, 1>>

\* stats.success_rate: completed / (completed + failed) when the sum is positive,
\* else the default 0.0
SuccessRate(ncompleted, nfailed) ==
    IF ncompleted + nfailed > 0 THEN <<ncompleted, ncompleted + nfailed>> ELSE <<0, 1>>

\* get_queue_stats on an available queue: stats = QueueStats()
StatsStart(m) ==
    /\ pc[m] = "m_idle"
    /\ enabled[m]
    /\ loc' = [loc EXCEPT ![m] = [NoLoc EXCEPT !.idx = 1]]
    /\ Goto(m, "st_scard")
    /\ UNCHANGED <<store, now, nextId, wvars, qvars, hist>>

\* one pass of the loop: count = scard(status_key), kept for the four counted statuses
StatsScard(m) ==
    /\ pc[m] = "st_scard"
    /\ LET status == TaskStatusOrder[loc[m].idx]
           count == Cardinality(status_set[status])
           st == loc[m].stats
           st2 == CASE status = "pending" -> [st EXCEPT !.pending_tasks = count]
                    [] status = "running" -> [st EXCEPT !.running_tasks = count]
                    [] status = "completed" -> [st EXCEPT !.completed_tasks = count]
                    [] status = "failed" -> [st EXCEPT !.failed_tasks = count]
                    [] OTHER -> st
       IN  loc' = [loc EXCEPT ![m].stats = st2, ![m].idx = @ + 1]
    /\ Goto(m, IF loc[m].idx = Len(TaskStatusOrder) THEN "st_workers" ELSE "st_scard")
    /\ UNCHANGED <<store, now, nextId, wvars, qvars, hist>>

\* total_tasks, success_rate, then active_workers = scard(worker_key)
StatsWorkers(m) ==
    /\ pc[m] = "st_workers"
    /\ LET st == loc[m].stats
       IN  loc' = [loc EXCEPT ![m].stats =
                      [st EXCEPT !.total_tasks = st.pending_tasks + st.running_tasks
                                                 + st.completed_tasks + st.failed_tasks,
                                 !.success_rate = SuccessRate(st.completed_tasks,
                                                              st.failed_tasks),
                                 !.active_workers = Cardinality(workers)]]
    /\ Goto(m, "st_done")
    /\ UNCHANGED <<store, now, nextId, wvars, qvars, hist>>

\* the caller has the QueueStats
StatsDone(m) ==
    /\ pc[m] = "st_done"
    /\ loc' = [loc EXCEPT ![m] = NoLoc]
    /\ Goto(m, "m_idle")
    /\ UNCHANGED <<store, now, nextId, wvars, qvars, hist>>

StatsStep(m) ==
    \/ StatsStart(m)
    \/ StatsScard(m)
    \/ StatsWorkers(m)
    \/ StatsDone(m)

\* SpecStats: two tasks without retries, one worker whose handler may fail, and a
\* monitor whose get_queue_stats calls do not overlap the steps of the others
NextStats ==
    \/ MonitorsQuiet /\ \E c \in Clients : ClientStep(c, NumTasks, {"agent_query"}, {NORMAL}, {0})
    \/ MonitorsQuiet /\ WorkerOnceStep("w1")
    \/ \E m \in Monitors : StatsStep(m)

SpecStats == Init /\ [][NextStats]_vars

\* C20: the QueueStats a call returns carries, for pending, running, completed and
\* failed, the cardinality of that status set, the cardinality of the worker set as
\* active_workers, and success_rate = completed / (completed + failed), 0 when
\* completed + failed = 0
C20_StatsAreCardinalities ==
    \A m \in Monitors :
        pc[m] = "st_done" =>
            LET st == loc[m].stats
                ncompleted == Cardinality(status_set["completed"])
                nfailed == Cardinality(status_set["failed"])
            IN  /\ st.pending_tasks = Cardinality(status_set["pending"])
                /\ st.running_tasks = Cardinality(status_set["running"])
                /\ st.completed_tasks = ncompleted
                /\ st.failed_tasks = nfailed
                /\ st.active_workers = Cardinality(workers)
                /\ st.success_rate[2] > 0
                /\ IF ncompleted + nfailed = 0
                   THEN st.success_rate[1] = 0
                   ELSE st.success_rate[1] * (ncompleted + nfailed)
                            = ncompleted * st.success_rate[2]

\* a call has returned with one task completed, one failed and a worker registered:
\* success_rate is 1/2
C20_Witness ==
    /\ pc["m1"] = "st_done"
    /\ Cardinality(status_set["completed"]) = 1
    /\ Cardinality(status_set["failed"]) = 1
    /\ workers = {"w1"}
    /\ loc["m1"].stats.success_rate = <<1, 2>>

\* ------------------------------------------------------------- Task.to_dict / from_dict
Datetimes == {<<0, 0>>, <<1, 0>>, <<1, 500000>>}

\* a variant that writes the timestamp to the second
IsoFormatSeconds(d) ==
    IF d[1] = 0 THEN "1970-01-01T00:00:00" ELSE "1970-01-01T00:00:01"

\* datetime.isoformat(): the microseconds are written when they are not 0
IsoFormat(d) ==
    CASE d = <<0, 0>> -> "1970-01-01T00:00:00"
      [] d = <<1, 0>> -> "1970-01-01T00:00:01"
      [] d = <<1, 500000>> -> "1970-01-01T00:00:01.500000"

\* datetime.fromisoformat(s): seconds and, when written, microseconds
FromIsoFormat(s) ==
    CASE s = "1970-01-01T00:00:00" -> <<0, 0>>
      [] s = "1970-01-01T00:00:01" -> <<1, 0>>
      [] s = "1970-01-01T00:00:01.500000" -> <<1, 500000>>

\* Task.to_dict: asdict, the enum members replaced by their values, the datetimes by
\* their ISO text, an absent started_at or completed_at left None
ToDict(t) ==
    [task_id |-> t.task_id, task_type |-> t.task_type.value, payload |-> t.payload,
     priority |-> t.priority.value, status |-> t.status.value,
     max_retries |-> t.max_retries, retry_count |-> t.retry_count,
     created_at |-> IsoFormat(t.created_at),
     started_at |-> IF t.started_at # <<>> THEN <<IsoFormat(t.started_at[1])>> ELSE <<>>,
     completed_at |-> IF t.completed_at # <<>> THEN <<IsoFormat(t.completed_at[1])>> ELSE <<>>,
     worker_id |-> t.worker_id]

\* Task.from_dict on a dictionary whose task_type and status are strings, priority an
\* int and created_at a string: the members are looked up by value, the texts parsed, a
\* started_at or completed_at that is None stays None
FromDict(d) ==
    [task_id |-> d.task_id, task_type |-> Member("TaskType", d.task_type),
     payload |-> d.payload, priority |-> Member("TaskPriority", d.priority),
     status |-> Member("TaskStatus", d.status),
     max_retries |-> d.max_retries, retry_count |-> d.retry_count,
     created_at |-> FromIsoFormat(d.created_at),
     started_at |-> IF d.started_at # <<>> THEN <<FromIsoFormat(d.started_at[1])>> ELSE <<>>,
     completed_at |-> IF d.completed_at # <<>> THEN <<FromIsoFormat(d.completed_at[1])>> ELSE <<>>,
     worker_id |-> d.worker_id]

\* a client holds some Task
InitRoundTrip ==
    /\ InitData
    /\ enabled = [p \in Procs |-> TRUE]
    /\ pc = [p \in Procs |-> IF p = "c1" THEN "rt_task" ELSE HomePc(p)]
    /\ \E type \in TaskType, payload \in {"query", "empty"}, prio \in TaskPriority,
          st \in TaskStatus, rc \in 0 .. 1, created \in {<<0, 0>>, <<1, 500000>>},
          started \in {<<>>} \cup {<<d>> : d \in Datetimes},
          completed \in {<<>>} \cup {<<d>> : d \in Datetimes},
          wid \in {<<>>, <<"w1">>} :
          loc = [p \in Procs |->
                   IF p = "c1"
                   THEN [NoLoc EXCEPT !.orig = TaskObject(type, payload, prio, st, rc,
                                                         created, started, completed, wid)]
                   ELSE NoLoc]

\* data = task.to_dict()
RoundTripToDict(c) ==
    /\ pc[c] = "rt_task"
    /\ loc' = [loc EXCEPT ![c].data = ToDict(loc[c].orig)]
    /\ Goto(c, "rt_dict")
    /\ UNCHANGED <<store, now, nextId, wvars, qvars, hist>>

\* Task.from_dict(data)
RoundTripFromDict(c) ==
    /\ pc[c] = "rt_dict"
    /\ loc' = [loc EXCEPT ![c].back = FromDict(loc[c].data)]
    /\ Goto(c, "rt_done")
    /\ UNCHANGED <<store, now, nextId, wvars, qvars, hist>>

NextRoundTrip == \E c \in Clients : RoundTripToDict(c) \/ RoundTripFromDict(c)

SpecRoundTrip == InitRoundTrip /\ [][NextRoundTrip]_vars

\* C21: from_dict applied to the to_dict of a Task gives a Task equal to the original
\* in id, type, payload, priority, status, retry fields and timestamps
C21_RoundTrip ==
    \A c \in Clients : pc[c] = "rt_done" => loc[c].back = loc[c].orig

\* a RUNNING, URGENT task with started_at present (with microseconds) and
\* completed_at absent has gone through to_dict and from_dict
C21_Witness ==
    /\ pc["c1"] = "rt_done"
    /\ loc["c1"].orig.status = Member("TaskStatus", "running")
    /\ loc["c1"].orig.priority = Member("TaskPriority", URGENT)
    /\ loc["c1"].orig.started_at = <<(<<1, 500000>>)>>
    /\ loc["c1"].orig.completed_at = <<>>
    /\ loc["c1"].data.started_at = <<"1970-01-01T00:00:01.500000">>
    /\ loc["c1"].data.priority = URGENT

\* C22: when update_task_status(id, new_status) returns for an existing task, the id
\* is a member of the new_status set and of no other status set; a task a worker has
\* finished is therefore not in the running set
C22_TransitionFrame ==
    [][\A p \in Procs :
          (pc[p] = "u_pub" /\ pc'[p] # "u_pub") =>
              {s \in TaskStatus : loc[p].cur \in status_set'[s]} = {loc[p].ustatus}]_vars

\* C23: also while other processes submit tasks, at the moment a get_next_task call
\* pops a task of priority p no list of a priority higher than p holds an id
C23_StrictPriorityConcurrent ==
    [][\A w \in Workers :
          (pc[w] # "w_get" /\ pc'[w] = "w_get") =>
              \A p \in TaskPriority :
                  p > task[loc'[w].cur].priority => queue[p] = <<>>]_vars

\* C24: every change of a task's stored status is one of PENDING->RUNNING,
\* RUNNING->COMPLETED, RUNNING->FAILED, RUNNING->RETRY, RETRY->PENDING,
\* PENDING->CANCELLED (so COMPLETED, FAILED and CANCELLED are terminal), and a task
\* that waits on a priority list is PENDING
C24_TransitionTable ==
    [][\A t \in TaskIds :
          /\ (Exists(task[t]) /\ Exists(task'[t]) /\ task'[t].status # task[t].status) =>
                 <<task[t].status, task'[t].status>> \in
                     {<<"pending", "running">>, <<"running", "completed">>,
                      <<"running", "failed">>, <<"running", "retry">>,
                      <<"retry", "pending">>, <<"pending", "cancelled">>}
          /\ (Exists(task'[t]) /\ Occ(t)' > 0) => task'[t].status = "pending"]_vars

\* worker w was killed holding task id t, after its pop and before the setex of
\* update_task_status(RUNNING) stored the new status; the submit_task call for t has
\* returned
Orphaned(w, t) ==
    /\ hist[t].submitted
    /\ pc[w] = "w_dead"
    /\ loc[w].cur = t
    /\ \/ loc[w].died = "w_get"
       \/ loc[w].died \in {"u_get", "u_srem", "u_setex"} /\ loc[w].ustatus = "running"

C26_CancelledNeverRuns ==
    [][\A t \in TaskIds :
          (task[t].status = "cancelled" \/ hist[t].cancelled) =>
              /\ task'[t].status # "running"
              /\ hist'[t].attempts = hist[t].attempts]_vars

\* ------------------------------------------------------------- sweeps that overlap a worker
\* SpecRace: one task; a worker that registers, refreshes its heartbeat between tasks
\* and runs a handler during which its heartbeat key may expire; a monitor calling
\* cleanup_stale_workers at any time
NextRace ==
    \/ \E c \in Clients : ClientStep(c, 1, {"agent_query"}, {NORMAL}, {0})
    \/ WorkerOnceStep("w1")
    \/ WorkerHeartbeat("w1")
    \/ pc["w1"] = "w_handler" /\ HeartbeatExpire("w1")
    \/ \E m \in Monitors : SweepStep(m)

SpecRace == Init /\ [][NextRace]_vars

\* C27: a worker that has started and has neither stopped nor crashed is a member of
\* the active worker set
C27_RunningWorkerRegistered ==
    \A w \in Workers :
        pc[w] \notin {"w_init", "w_dead", "w_stopped"} => w \in workers

\* C28: for every task the task.submitted event is published before any
\* task.status_changed or task.completed event for the same id
C28_SubmittedEventFirst ==
    \A t \in TaskIds :
        (<<"task.status_changed", t>> \in events \/ <<"task.completed", t>> \in events)
            => <<"task.submitted", t>> \in events

\* ------------------------------------------------------------- TaskScheduler.cancel_scheduled_task
\* cancel_scheduled_task(id) for an id schedule_task has returned: zrem scheduled
\* (scheduler.py 140-141)
CancelScheduledZrem(k, id) ==
    /\ pc[k] = "k_idle"
    /\ hist[id].due_at >= 0
    /\ ~hist[id].cancelled
    /\ scheduled' = [scheduled EXCEPT ![id] = -1]
    /\ loc' = [loc EXCEPT ![k] = [NoLoc EXCEPT !.cur = id]]
    /\ Goto(k, "x_del")
    /\ UNCHANGED <<queue, task, result, status_set, workers, heartbeat, events,
                   now, nextId, wvars, qvars, hist>>

\* delete task_key and return (scheduler.py 143-147)
CancelScheduledDelete(k) ==
    /\ pc[k] = "x_del"
    /\ task' = [task EXCEPT ![loc[k].cur] = NoTask]
    /\ hist' = [hist EXCEPT ![loc[k].cur].cancelled = TRUE]
    /\ loc' = [loc EXCEPT ![k] = NoLoc]
    /\ Goto(k, "k_idle")
    /\ UNCHANGED <<queue, result, status_set, scheduled, workers, heartbeat, events,
                   now, nextId, wvars, qvars>>

\* SpecUnschedule: one task scheduled for now or now + 1, the clock, a scheduler
\* promoting due tasks, a worker, and a caller of cancel_scheduled_task, all concurrent
NextUnschedule ==
    \/ \E c \in Clients : \E d \in 0 .. 1 :
          ClientSchedule(c, 1, "agent_query", NORMAL, 0, now + d)
    \/ \E c \in Clients : ScheduleZadd(c) \/ ClientDone(c)
    \/ Tick
    \/ SchedulerStep("s1")
    \/ WorkerOnceStep("w1")
    \/ \E k \in Cancellers : \E id \in TaskIds : CancelScheduledZrem(k, id)
    \/ \E k \in Cancellers : CancelScheduledDelete(k)

SpecUnschedule == Init /\ [][NextUnschedule]_vars

\* C29: after cancel_scheduled_task(id) has returned the id is on no priority list, no
\* worker executes it, and no record of it is left in the task store, the scheduled
\* structure or a status set
C29_CancelledScheduledGone ==
    \A t \in TaskIds :
        hist[t].cancelled =>
            /\ Occ(t) = 0
            /\ \A w \in Workers : ~(pc[w] = "w_handler" /\ loc[w].cur = t)
            /\ ~Exists(task[t])
            /\ scheduled[t] < 0
            /\ StatusSetsOf(t) = {}

\* C30: the success rate a worker reports, (tasks_processed - tasks_failed) /
\* tasks_processed when tasks_processed > 0 and 0 otherwise, lies between 0 and 1
C30_WorkerRateInRange ==
    \A w \in Workers :
        tasks_processed[w] > 0 =>
            /\ tasks_processed[w] - tasks_failed[w] >= 0
            /\ tasks_processed[w] - tasks_failed[w] <= tasks_processed[w]
====
